---- MODULE Spec2Model ----
(***************************************************************************)
(* RigidObjectCollectionData: the lazily updated, timestamp-gated data     *)
(* container of a rigid object collection.                                 *)
(*                                                                         *)
(* Tensors are nested sequences (1-based here, 0-based in the source).     *)
(* A 2-d buffer of shape (rows, k) is a sequence of rows; a 3-d buffer of  *)
(* shape (a, b, k) is a sequence of a sequences of b rows.                 *)
(* Floating-point time is modelled by integers (exact arithmetic).         *)
(***************************************************************************)
EXTENDS Integers, Sequences, FiniteSets, TLC

\* ---- bounds of the model ----
MaxCount == 4        \* bodies in the physics view (view.count)
MaxObjects == 2      \* num_objects handed to the constructor
MaxTime == 3         \* simulation time at which a run stops calling update
MaxVer == 1          \* number of physics steps of the view in a run
MaxK == 2            \* data_size of the buffers handed to _view_to_data_order
MaxStart == 1        \* first element of the synthetic flattened buffers
MaxRows == 6         \* leading dimension of the synthetic flattened buffers
MaxReorderObjects == 3  \* num_objects of the containers the helper is called on
MaxBack == 1         \* when dt has either sign: the simulation time stays
                     \* within MaxBack of zero, on both sides
MaxAnyUpdates == 1   \* update calls of a run in which dt has either sign

VARIABLES
    num_objects,      \* self.num_objects
    num_instances,    \* self.num_instances
    view_count,       \* self._root_physx_view.count
    view_alive,       \* the referent of the weakref.proxy still exists
    view_ver,         \* the physics state held by the view (a version number)
    view_fault,       \* the call of the view that fails at present, or None
    sim_timestamp,    \* self._sim_timestamp
    _object_state_w,  \* self._object_state_w : [data, timestamp]
    _object_acc_w,    \* self._object_acc_w : [data, timestamp]
    dts,              \* history: the dt of every update call so far
    last,             \* history: the last call and what it gave back
    hist,             \* history: per cache, the reads since the last update
    reorder_in,       \* argument of the last _view_to_data_order call
    reorder_out,      \* its result
    before            \* history of the runs that call update with a dt of
                      \* either sign: the time and the buffers the last
                      \* update found, and its dt

vars == <<num_objects, num_instances, view_count, view_alive, view_ver,
          sim_timestamp, _object_state_w, _object_acc_w, dts, last, hist,
          reorder_in, reorder_out, before, view_fault>>

\* ---- values ----
None == "None"
ReferenceError == "ReferenceError"   \* weakly-referenced object no longer exists
RuntimeError == "RuntimeError"       \* torch: shape is invalid for input of size
TypeError == "TypeError"             \* 'NoneType' object is not subscriptable

Min(a, b) == IF a < b THEN a ELSE b

\* ---- TimestampedBuffer (omni.isaac.lab.utils.buffers) ----
SentinelTimestamp == 0 - 1

\* data is None until the first refresh; None is the empty buffer here
NoData == <<>>

TimestampedBuffer == [data |-> NoData, timestamp |-> SentinelTimestamp]

\* ---- tensor helpers ----
\* a function over 1..n, held as a sequence (evaluated once, element by element)
AsSeq(f) == f \o <<>>

\* number of scalar elements of a 2-d buffer
Numel(data) == IF Len(data) = 0 THEN 0 ELSE Len(data) * Len(data[1])

\* element at 0-based linear index idx of a contiguous 2-d buffer
ElemAt(data, idx) == data[(idx \div Len(data[1])) + 1][(idx % Len(data[1])) + 1]

\* data.reshape(a, b, -1) is defined iff the last dimension can be inferred
ReshapeDefined(data, a, b) == a * b > 0 /\ Numel(data) % (a * b) = 0

\* row-major refill of the elements of data into shape (a, b, k)
ReshapeTo(data, a, b, k) ==
    AsSeq([x \in 1..a |-> AsSeq([y \in 1..b |-> AsSeq([z \in 1..k |->
        ElemAt(data, ((x - 1) * b + (y - 1)) * k + (z - 1))])])])

\* data.reshape(a, b, -1): the last dimension is what is left of the elements
Reshape(data, a, b) == ReshapeTo(data, a, b, Numel(data) \div (a * b))

\* torch.einsum("ijk -> jik", t): swap the first two axes
EinsumJIK(t) ==
    AsSeq([j \in 1..Len(t[1]) |-> AsSeq([i \in 1..Len(t) |-> t[i][j]])])

\* a call that returned v / a call that raised e
Return(v) == [raised |-> None, value |-> v]
Raise(e) == [raised |-> e, value |-> <<>>]

ViewToDataOrder_NoTranspose(data, nobj, ninst) ==
    IF ~ReshapeDefined(data, ninst, nobj) THEN Raise(RuntimeError)
    ELSE Return(Reshape(data, ninst, nobj))

\* RigidObjectCollectionData._view_to_data_order
ViewToDataOrder(data, nobj, ninst) ==
    IF ~ReshapeDefined(data, nobj, ninst) THEN Raise(RuntimeError)
    ELSE Return(EinsumJIK(Reshape(data, nobj, ninst)))

\* math_utils.convert_quat(q, to="wxyz"): (x, y, z, w) -> (w, x, y, z)
ConvertQuatWXYZ(q) == <<q[4], q[1], q[2], q[3]>>

\* t[..., lo:hi] of a 3-d buffer (0-based, hi exclusive)
Slice(t, lo, hi) ==
    AsSeq([i \in 1..Len(t) |-> AsSeq([j \in 1..Len(t[i]) |-> SubSeq(t[i][j], lo + 1, hi)])])

\* ---- the physics view ----
\* Every component of every body at every physics state is a distinct value:
\* kind 1 = transform, 2 = velocity, 3 = acceleration, 4 = gravity direction.
ViewValue(kind, ver, body, comp) == kind * 10000 + ver * 1000 + body * 10 + comp

\* view.get_transforms(): (count, 7) = position (3), quaternion (x, y, z, w)
GetTransforms(ver, count) ==
    AsSeq([b \in 1..count |-> AsSeq([c \in 1..7 |-> ViewValue(1, ver, b - 1, c - 1)])])

\* view.get_velocities(): (count, 6) = linear (3), angular (3)
GetVelocities(ver, count) ==
    AsSeq([b \in 1..count |-> AsSeq([c \in 1..6 |-> ViewValue(2, ver, b - 1, c - 1)])])

\* view.get_accelerations(): (count, 6) = linear (3), angular (3)
GetAccelerations(ver, count) ==
    AsSeq([b \in 1..count |-> AsSeq([c \in 1..6 |-> ViewValue(3, ver, b - 1, c - 1)])])

\* ---- recomputation of the two lazy buffers ----
\* pose[..., 3:7] = math_utils.convert_quat(pose[..., 3:7], to="wxyz")
SetQuatWXYZ(pose) ==
    AsSeq([i \in 1..Len(pose) |-> AsSeq([j \in 1..Len(pose[i]) |->
        SubSeq(pose[i][j], 1, 3) \o ConvertQuatWXYZ(SubSeq(pose[i][j], 4, 7))
            \o SubSeq(pose[i][j], 8, Len(pose[i][j]))])])

CatLastDim_Swapped(a, b) ==
    AsSeq([i \in 1..Len(a) |-> AsSeq([j \in 1..Len(a[i]) |-> b[i][j] \o a[i][j]])])

\* torch.cat((a, b), dim=-1)
CatLastDim(a, b) ==
    AsSeq([i \in 1..Len(a) |-> AsSeq([j \in 1..Len(a[i]) |-> a[i][j] \o b[i][j]])])

\* pose and velocity are read in this order; the first that raised ends the read
CatPoseVelocity(pose, velocity) ==
    IF pose.raised # None THEN pose
    ELSE IF velocity.raised # None THEN velocity
    ELSE Return(CatLastDim(SetQuatWXYZ(pose.value), velocity.value))

\* the value object_state_w assigns to .data when the view holds state ver
ObjectStateFromView(ver) ==
    CatPoseVelocity(
        ViewToDataOrder(GetTransforms(ver, view_count), num_objects, num_instances),
        ViewToDataOrder(GetVelocities(ver, view_count), num_objects, num_instances))

\* the value object_acc_w assigns to .data when the view holds state ver
ObjectAccFromView(ver) ==
    ViewToDataOrder(GetAccelerations(ver, view_count), num_objects, num_instances)

\* the body of the "if" of object_state_w, up to the value assigned to .data:
\* every use of the dead proxy raises ReferenceError
ComputeObjectStateW ==
    IF ~view_alive THEN Raise(ReferenceError) ELSE ObjectStateFromView(view_ver)

ComputeObjectAccW_NoProxy == ObjectAccFromView(view_ver)

\* the body of the "if" of object_acc_w, up to the value assigned to .data
ComputeObjectAccW ==
    IF ~view_alive THEN Raise(ReferenceError) ELSE ObjectAccFromView(view_ver)

IsStale_Always(timestamp) == timestamp <= sim_timestamp

IsStale_Inverted(timestamp) == timestamp > sim_timestamp

\* the guard of both lazy properties: buffer.timestamp < self._sim_timestamp
IsStale(timestamp) == timestamp < sim_timestamp

RefreshTimestamp_Future == sim_timestamp + 1

\* the timestamp a refresh stores: buffer.timestamp = self._sim_timestamp
RefreshTimestamp == sim_timestamp

Refresh_StampFirst(s, name, cache, computed) ==
    IF IsStale(cache.timestamp)
    THEN IF computed.raised # None
         THEN [s EXCEPT ![name] = [data |-> cache.data,
                                   timestamp |-> RefreshTimestamp],
                        !.raised = computed.raised, !.value = <<>>]
         ELSE [s EXCEPT ![name] = [data |-> computed.value,
                                   timestamp |-> RefreshTimestamp],
                        !.raised = None,
                        !.value = computed.value,
                        !.log = Append(@, [cache |-> name, recomputed |-> TRUE,
                                           buf |-> computed.value])]
    ELSE [s EXCEPT !.raised = None,
                   !.value = cache.data,
                   !.log = Append(@, [cache |-> name, recomputed |-> FALSE,
                                      buf |-> cache.data])]

\* One evaluation of a lazy property on the buffer s[name]. s carries both
\* buffers through a chain of property reads, s.view[name] is what the
\* recomputation from the view gives at this moment, and s.log records every
\* read of a buffer that returned.
Refresh(s, name, cache, computed) ==
    IF IsStale(cache.timestamp)
    THEN IF computed.raised # None
         THEN [s EXCEPT !.raised = computed.raised, !.value = <<>>]
         ELSE [s EXCEPT ![name] = [data |-> computed.value,
                                   timestamp |-> RefreshTimestamp],
                        !.raised = None,
                        !.value = computed.value,
                        !.log = Append(@, [cache |-> name, recomputed |-> TRUE,
                                           buf |-> computed.value])]
    ELSE [s EXCEPT !.raised = None,
                   !.value = cache.data,
                   !.log = Append(@, [cache |-> name, recomputed |-> FALSE,
                                      buf |-> cache.data])]

LazyRead(s, name) == Refresh(s, name, s[name], s.view[name])

\* ---- the properties ----
object_state_w(s) == LazyRead(s, "state")

object_acc_w(s) == LazyRead(s, "acc")

\* o[..., lo:hi] of a property read that may have raised
SliceOf(o, lo, hi) ==
    IF o.raised # None THEN o
    ELSE IF o.value = NoData THEN [o EXCEPT !.raised = TypeError]
    ELSE [o EXCEPT !.value = Slice(@, lo, hi)]

object_pos_w(s) == SliceOf(object_state_w(s), 0, 3)

object_quat_w(s) == SliceOf(object_state_w(s), 3, 7)

object_vel_w(s) == SliceOf(object_state_w(s), 7, 13)

object_lin_vel_w(s) == SliceOf(object_state_w(s), 7, 10)

object_ang_vel_w(s) == SliceOf(object_state_w(s), 10, 13)

object_lin_acc_w(s) == SliceOf(object_acc_w(s), 0, 3)

object_ang_acc_w(s) == SliceOf(object_acc_w(s), 3, 6)

\* gravity_dir.repeat(num_instances, num_objects, 1)
GRAVITY_VEC_W ==
    AsSeq([i \in 1..num_instances |-> AsSeq([j \in 1..num_objects |->
        AsSeq([c \in 1..3 |-> ViewValue(4, 0, 0, c - 1)])])])

\* torch.tensor((1.0, 0.0, 0.0)).repeat(num_instances, num_objects, 1)
FORWARD_VEC_B ==
    AsSeq([i \in 1..num_instances |-> AsSeq([j \in 1..num_objects |-> <<1, 0, 0>>])])

\* a math_utils / torch function of two tensors, left uninterpreted
Apply(fn, a, b) == [fn |-> fn, args |-> <<a, b>>]

\* fn(first(self), <constant>); the arguments of a call are read left to right
WithConstant(fn, first, const) ==
    IF first.raised # None THEN first
    ELSE [first EXCEPT !.value = Apply(fn, first.value, const)]

projected_gravity_b(s) ==
    WithConstant("quat_rotate_inverse", object_quat_w(s), GRAVITY_VEC_W)

heading_w(s) ==
    WithConstant("atan2_of_quat_apply", object_quat_w(s), FORWARD_VEC_B)

\* math_utils.quat_rotate_inverse(q, v) of two property reads
QuatRotateInverse(q, v) ==
    IF q.raised # None THEN q
    ELSE IF v.raised # None THEN v
    ELSE [v EXCEPT !.value = Apply("quat_rotate_inverse", q.value, v.value)]

\* the second argument is read after the first, on the buffers the first left
LinVelAfter(q) == QuatRotateInverse(q, object_lin_vel_w(q))
AngVelAfter(q) == QuatRotateInverse(q, object_ang_vel_w(q))

object_lin_vel_b(s) == LinVelAfter(object_quat_w(s))

object_ang_vel_b(s) == AngVelAfter(object_quat_w(s))

StateAccessors ==
    {"object_state_w", "object_pos_w", "object_quat_w", "object_vel_w",
     "object_lin_vel_w", "object_ang_vel_w", "projected_gravity_b",
     "heading_w", "object_lin_vel_b", "object_ang_vel_b"}

AccAccessors == {"object_acc_w", "object_lin_acc_w", "object_ang_acc_w"}

Accessors == StateAccessors \cup AccAccessors

\* getattr(self, accessor)
GetProperty(accessor, s) ==
    CASE accessor = "object_state_w" -> object_state_w(s)
      [] accessor = "object_acc_w" -> object_acc_w(s)
      [] accessor = "projected_gravity_b" -> projected_gravity_b(s)
      [] accessor = "heading_w" -> heading_w(s)
      [] accessor = "object_pos_w" -> object_pos_w(s)
      [] accessor = "object_quat_w" -> object_quat_w(s)
      [] accessor = "object_vel_w" -> object_vel_w(s)
      [] accessor = "object_lin_vel_w" -> object_lin_vel_w(s)
      [] accessor = "object_ang_vel_w" -> object_ang_vel_w(s)
      [] accessor = "object_lin_vel_b" -> object_lin_vel_b(s)
      [] accessor = "object_ang_vel_b" -> object_ang_vel_b(s)
      [] accessor = "object_lin_acc_w" -> object_lin_acc_w(s)
      [] accessor = "object_ang_acc_w" -> object_ang_acc_w(s)

\* ---- history kept for the properties (not program state) ----
\* Stale / Fresh of a buffer, as the specification words it
Stale(cache) == cache.timestamp < sim_timestamp
Fresh(cache) == cache.timestamp = sim_timestamp

Cache(name) == IF name = "state" THEN _object_state_w ELSE _object_acc_w

HistInit ==
    [reads |-> 0,            \* reads of the buffer that returned (2 = two or more)
     recomp |-> 0,           \* recomputations of the buffer (2 = two or more)
     first_stale |-> FALSE,  \* the buffer was Stale before the first of them
     first_ver |-> 0,        \* the view's state at the first of them
     first_buf |-> <<>>,     \* what the first of them returned
     same |-> TRUE]          \* all of them returned that same buffer

ApplyEvent(h, ev) ==
    [reads |-> Min(h.reads + 1, 2),
     recomp |-> Min(h.recomp + (IF ev.recomputed THEN 1 ELSE 0), 2),
     first_stale |-> IF h.reads = 0 THEN Stale(Cache(ev.cache)) ELSE h.first_stale,
     first_ver |-> IF h.reads = 0 THEN view_ver ELSE h.first_ver,
     first_buf |-> IF h.reads = 0 THEN ev.buf ELSE h.first_buf,
     same |-> h.same /\ (h.reads = 0 \/ ev.buf = h.first_buf)]

RECURSIVE ApplyLog(_, _)
ApplyLog(h, log) ==
    IF log = <<>> THEN h
    ELSE ApplyLog([h EXCEPT ![Head(log).cache] = ApplyEvent(@, Head(log))], Tail(log))

\* the cache a property reads
Backing(accessor) == IF accessor \in {"object_acc_w", "object_lin_acc_w", "object_ang_acc_w"}
                     THEN "acc" ELSE "state"

Call(op, cache, raised) == [op |-> op, cache |-> cache, raised |-> raised]

\* ---- construction ----
\* RigidObjectCollectionData.__init__ on a view of `count` bodies
Construct(count, nobj) ==
    /\ view_count = count
    /\ num_objects = nobj
    /\ num_instances = count \div nobj
    /\ view_alive = TRUE
    /\ view_ver = 0
    /\ view_fault = None
    /\ sim_timestamp = 0
    /\ _object_state_w = TimestampedBuffer
    /\ _object_acc_w = TimestampedBuffer
    /\ dts = <<>>
    /\ last = Call("init", None, None)
    /\ hist = [state |-> HistInit, acc |-> HistInit]
    /\ reorder_in = <<>>
    /\ reorder_out = Return(<<>>)
    /\ before = [t |-> 0, dt |-> 0, state |-> TimestampedBuffer,
                 acc |-> TimestampedBuffer]

Init == \E count \in 1..MaxCount, nobj \in 1..MaxObjects : Construct(count, nobj)

\* ---- operations ----
UpdateTimestamp_Assign(timestamp, dt) == dt

UpdateTimestamp_Clamped(timestamp, dt) == IF dt > 0 THEN timestamp + dt ELSE timestamp

\* self._sim_timestamp += dt
UpdateTimestamp(timestamp, dt) == timestamp + dt

Update_Invalidating(dt) ==
    /\ Len(dts) < MaxTime
    /\ sim_timestamp + dt <= MaxTime
    /\ sim_timestamp' = UpdateTimestamp(sim_timestamp, dt)
    /\ _object_state_w' = TimestampedBuffer
    /\ _object_acc_w' = TimestampedBuffer
    /\ dts' = Append(dts, dt)
    /\ hist' = [state |-> HistInit, acc |-> HistInit]
    /\ last' = Call("update", None, None)
    /\ UNCHANGED <<num_objects, num_instances, view_count, view_alive, view_ver,
                   reorder_in, reorder_out, before, view_fault>>

\* RigidObjectCollectionData.update
Update(dt) ==
    /\ Len(dts) < MaxTime
    /\ sim_timestamp + dt <= MaxTime
    /\ sim_timestamp' = UpdateTimestamp(sim_timestamp, dt)
    /\ dts' = Append(dts, dt)
    /\ hist' = [state |-> HistInit, acc |-> HistInit]
    /\ last' = Call("update", None, None)
    /\ UNCHANGED <<num_objects, num_instances, view_count, view_alive, view_ver,
                   _object_state_w, _object_acc_w, reorder_in, reorder_out, before, view_fault>>

\* what the two recomputations give in the current state
ViewNow == [state |-> ComputeObjectStateW, acc |-> ComputeObjectAccW]

\* a property read that ended as o: the buffers it leaves, and the history
Commit(accessor, o) ==
    /\ _object_state_w' = o.state
    /\ _object_acc_w' = o.acc
    /\ hist' = ApplyLog(hist, o.log)
    /\ last' = Call("read", Backing(accessor), o.raised)
    /\ UNCHANGED <<num_objects, num_instances, view_count, view_alive, view_ver,
                   sim_timestamp, dts, reorder_in, reorder_out, before, view_fault>>

\* one read of a property of the container
Read(accessor, view) ==
    Commit(accessor,
           GetProperty(accessor,
                       [state |-> _object_state_w, acc |-> _object_acc_w,
                        view |-> view,
                        raised |-> None, value |-> <<>>, log |-> <<>>]))

ReadAnyWith(view) == \E accessor \in Accessors : Read(accessor, view)

\* a read of any one property
ReadAny == ReadAnyWith(ViewNow)

\* the simulation steps: the view holds a new physics state
PhysicsStep ==
    /\ view_alive
    /\ view_ver < MaxVer
    /\ view_ver' = view_ver + 1
    /\ last' = Call("physics", None, None)
    /\ UNCHANGED <<num_objects, num_instances, view_count, view_alive,
                   sim_timestamp, _object_state_w, _object_acc_w, dts, hist,
                   reorder_in, reorder_out, before, view_fault>>

\* the owning asset drops the view: the weakref.proxy is dead from here on
DestroyView ==
    /\ view_alive
    /\ view_alive' = FALSE
    /\ last' = Call("destroy", None, None)
    /\ UNCHANGED <<num_objects, num_instances, view_count, view_ver,
                   sim_timestamp, _object_state_w, _object_acc_w, dts, hist,
                   reorder_in, reorder_out, before, view_fault>>

\* the simulation loop (physics steps, update(dt) with positive dt, reads of
\* the properties), until the asset that owns the view goes away
Next ==
    \/ \E dt \in 1..MaxTime : Update(dt)
    \/ ReadAny
    \/ PhysicsStep
    \/ DestroyView

Spec == Init /\ [][Next]_vars

\* ---- the helper alone, on synthetic buffers ----
\* torch.arange(start, start + rows*k).reshape(rows, k)
Arange(rows, k, start) ==
    AsSeq([r \in 1..rows |-> AsSeq([c \in 1..k |-> start + (r - 1) * k + (c - 1)])])

InitReorder ==
    \E count \in 1..MaxRows, nobj \in 1..MaxReorderObjects : Construct(count, nobj)

CallViewToDataOrder ==
    \E rows \in 1..MaxRows, k \in 1..MaxK, start \in 0..MaxStart :
        /\ reorder_in' = Arange(rows, k, start)
        /\ reorder_out' = ViewToDataOrder(reorder_in', num_objects, num_instances)
        /\ UNCHANGED <<num_objects, num_instances, view_count, view_alive, view_ver,
                       sim_timestamp, _object_state_w, _object_acc_w, dts, last, hist, before, view_fault>>

NextReorder == CallViewToDataOrder

SpecReorder == InitReorder /\ [][NextReorder]_vars

\* ---- update(dt) with a dt of either sign ----
\* RigidObjectCollectionData.update, called with any dt: the body is the one
\* statement self._sim_timestamp += dt, with no validation of dt before it
UpdateAny(dt) ==
    /\ Len(dts) < MaxAnyUpdates
    /\ sim_timestamp + dt >= 0 - MaxBack
    /\ sim_timestamp + dt <= MaxBack
    /\ sim_timestamp' = UpdateTimestamp(sim_timestamp, dt)
    /\ dts' = Append(dts, dt)
    /\ hist' = [state |-> HistInit, acc |-> HistInit]
    /\ last' = Call("update", None, None)
    /\ before' = [t |-> sim_timestamp, dt |-> dt, state |-> _object_state_w,
                  acc |-> _object_acc_w]
    /\ UNCHANGED <<num_objects, num_instances, view_count, view_alive, view_ver,
                   _object_state_w, _object_acc_w, reorder_in, reorder_out,
                   view_fault>>

\* a collection of MaxObjects objects in each of two environments
InitAnyDt == Construct(2 * MaxObjects, MaxObjects)

\* a caller that does not keep to "dt must be a positive value"
NextAnyDt ==
    \/ \E dt \in (0 - 2 * MaxBack)..(2 * MaxBack) : UpdateAny(dt)
    \/ ReadAny
    \/ PhysicsStep

SpecAnyDt == InitAnyDt /\ [][NextAnyDt]_vars

\* ---- reads while calls of the physics view fail ----
ViewCalls == {"get_transforms", "get_velocities", "get_accelerations"}

\* the exception a failing call of the view raises
ViewError(call) ==
    CASE call = "get_transforms" -> "Exception in get_transforms"
      [] call = "get_velocities" -> "Exception in get_velocities"
      [] call = "get_accelerations" -> "Exception in get_accelerations"

\* self._root_physx_view.<call>(): its result, or the exception it raises
ViewCall(call, result) ==
    IF ~view_alive THEN Raise(ReferenceError)
    ELSE IF view_fault = call THEN Raise(ViewError(call))
    ELSE Return(result)

\* self._view_to_data_order(<call>), the call made first
Reordered(got) ==
    IF got.raised # None THEN got
    ELSE ViewToDataOrder(got.value, num_objects, num_instances)

\* the body of the "if" of object_state_w, up to the value assigned to .data,
\* on a view whose calls may fail
ComputeObjectStateWFaulty ==
    CatPoseVelocity(
        Reordered(ViewCall("get_transforms", GetTransforms(view_ver, view_count))),
        Reordered(ViewCall("get_velocities", GetVelocities(view_ver, view_count))))

\* the body of the "if" of object_acc_w, up to the value assigned to .data
ComputeObjectAccWFaulty ==
    Reordered(ViewCall("get_accelerations", GetAccelerations(view_ver, view_count)))

ViewFaulty == [state |-> ComputeObjectStateWFaulty, acc |-> ComputeObjectAccWFaulty]

\* a read of any one property, on a view whose calls may fail
ReadFaulty == ReadAnyWith(ViewFaulty)

\* the view starts to fail in one of its calls, or stops failing
SetFault(call) ==
    /\ call # view_fault
    /\ view_fault' = call
    /\ last' = Call("fault", None, None)
    /\ UNCHANGED <<num_objects, num_instances, view_count, view_alive, view_ver,
                   sim_timestamp, _object_state_w, _object_acc_w, dts, hist,
                   reorder_in, reorder_out, before>>

\* a collection of MaxObjects objects in each of two environments
InitFault == Construct(2 * MaxObjects, MaxObjects)

\* the simulation loop on a view whose calls fail at times
NextFault ==
    \/ \E dt \in 1..MaxTime : Update(dt)
    \/ ReadFaulty
    \/ PhysicsStep
    \/ \E call \in ViewCalls \cup {None} : SetFault(call)

SpecFault == InitFault /\ [][NextFault]_vars

\* ======================= the claims =======================
Caches == {"state", "acc"}

\* what a recomputation of the buffer gives when the view holds state ver
FromView(c, ver) ==
    IF c = "state" THEN ObjectStateFromView(ver) ELSE ObjectAccFromView(ver)

\* the last call was a read backed by buffer c that returned
ReadReturned(c) == last.op = "read" /\ last.cache = c /\ last.raised = None

RECURSIVE SumSeq(_)
SumSeq(q) == IF q = <<>> THEN 0 ELSE Head(q) + SumSeq(Tail(q))

\* C1: two or more reads of the same lazy buffer with no update between them
\* all return the buffer the first of them returned, whatever the view did in
\* between, and together they recompute it exactly once if it was Stale before
\* the first of them (and not at all if it was not).
C1_Idempotence ==
    \A c \in Caches :
        hist[c].reads = 2 =>
            /\ hist[c].same
            /\ hist[c].recomp = (IF hist[c].first_stale THEN 1 ELSE 0)

\* a second read of a buffer that was Stale before the first, made after the
\* view went on to another physics state
C1_Witness ==
    \E c \in Caches :
        /\ hist[c].reads = 2
        /\ hist[c].first_stale
        /\ view_ver > hist[c].first_ver
        /\ ReadReturned(c)

\* C2: after an update with dt > 0, the reads of a lazy buffer that return
\* recompute it exactly once, at the first of them, and what that read returns
\* is computed from the state the view holds at that read.
C2_Freshness ==
    \A c \in Caches :
        (dts # <<>> /\ hist[c].reads >= 1) =>
            /\ hist[c].recomp = 1
            /\ hist[c].first_buf = FromView(c, hist[c].first_ver).value

\* the first read after an update, of a buffer that an earlier read had filled
\* from an earlier state of the view
C2_Witness ==
    \E c \in Caches :
        /\ dts # <<>>
        /\ hist[c].reads = 1
        /\ hist[c].first_ver >= 1
        /\ ReadReturned(c)
        /\ Cache(c).timestamp = sim_timestamp
        /\ Cache(c).data # FromView(c, 0).value

C4_RunningSum ==
    /\ [](sim_timestamp = SumSeq(dts))
    /\ [][/\ sim_timestamp' >= sim_timestamp
          /\ (dts' = dts => sim_timestamp' = sim_timestamp)]_vars

\* two updates with different dt, and reads of both buffers after them
C4_Witness ==
    /\ Len(dts) >= 2
    /\ dts[1] # dts[2]
    /\ sim_timestamp = dts[1] + dts[2]
    /\ hist["state"].reads >= 1
    /\ hist["acc"].reads >= 1

\* C5: every buffer starts Stale, with the sentinel timestamp below the initial
\* simulation timestamp; in every state each buffer is Stale or Fresh (its
\* timestamp is never above the simulation timestamp); and a read that
\* returned leaves its buffer Fresh (timestamp = simulation timestamp).
C5_StaleOrFresh ==
    /\ SentinelTimestamp < 0
    /\ \A c \in Caches :
        /\ Stale(Cache(c)) \/ Fresh(Cache(c))
        /\ Cache(c).timestamp \in {SentinelTimestamp} \cup 0..sim_timestamp
        /\ (last.op = "init" => Stale(Cache(c)) /\ Cache(c).timestamp = SentinelTimestamp)
        /\ (Cache(c).data = NoData => Cache(c).timestamp = SentinelTimestamp)
        /\ (ReadReturned(c) => Fresh(Cache(c)))

\* one buffer refreshed at the current time, the other left Stale at the time
\* of an earlier refresh
C5_Witness ==
    \E c, d \in Caches :
        /\ sim_timestamp >= 2
        /\ ReadReturned(c)
        /\ Cache(c).timestamp = sim_timestamp
        /\ Cache(d).timestamp > 0
        /\ Stale(Cache(d))

Self ==
    [state |-> _object_state_w, acc |-> _object_acc_w, view |-> ViewNow,
     raised |-> None, value |-> <<>>, log |-> <<>>]

\* the 13 components object_state_w is to hold for the body in row b (1-based)
\* of the view, when the view holds state ver
ExpectedState(ver, b) ==
    <<GetTransforms(ver, view_count)[b][1],
      GetTransforms(ver, view_count)[b][2],
      GetTransforms(ver, view_count)[b][3],
      GetTransforms(ver, view_count)[b][7],
      GetTransforms(ver, view_count)[b][4],
      GetTransforms(ver, view_count)[b][5],
      GetTransforms(ver, view_count)[b][6],
      GetVelocities(ver, view_count)[b][1],
      GetVelocities(ver, view_count)[b][2],
      GetVelocities(ver, view_count)[b][3],
      GetVelocities(ver, view_count)[b][4],
      GetVelocities(ver, view_count)[b][5],
      GetVelocities(ver, view_count)[b][6]>>

\* components lo..hi-1 (0-based) of every row of a 3-d buffer
Components(t, lo, hi) ==
    [i \in 1..Len(t) |-> [j \in 1..Len(t[i]) |->
        [c \in 1..(hi - lo) |-> t[i][j][lo + c]]]]

\* C7: a recomputed object_state_w has, for every instance i and object j, the
\* 13 components position, orientation (w, x, y, z), linear velocity, angular
\* velocity of the body in row j*num_instances + i of the view, the
\* orientation being the view's (x, y, z, w) reordered and everything else
\* copied; and on a Fresh buffer the derived properties return components
\* 0:3, 3:7, 7:13, 7:10, 10:13 of it, the accelerations 0:3 and 3:6 of
\* object_acc_w.
C7_Layout ==
    /\ (hist["state"].reads >= 1 /\ hist["state"].first_stale) =>
        /\ Len(hist["state"].first_buf) = num_instances
        /\ \A i \in 0..(num_instances - 1) :
            /\ Len(hist["state"].first_buf[i + 1]) = num_objects
            /\ \A j \in 0..(num_objects - 1) :
                hist["state"].first_buf[i + 1][j + 1]
                    = ExpectedState(hist["state"].first_ver, j * num_instances + i + 1)
    /\ (Fresh(_object_state_w) /\ _object_state_w.data # NoData) =>
        /\ object_state_w(Self).value = _object_state_w.data
        /\ object_pos_w(Self).value = Components(_object_state_w.data, 0, 3)
        /\ object_quat_w(Self).value = Components(_object_state_w.data, 3, 7)
        /\ object_vel_w(Self).value = Components(_object_state_w.data, 7, 13)
        /\ object_lin_vel_w(Self).value = Components(_object_state_w.data, 7, 10)
        /\ object_ang_vel_w(Self).value = Components(_object_state_w.data, 10, 13)
    /\ (Fresh(_object_acc_w) /\ _object_acc_w.data # NoData) =>
        /\ object_acc_w(Self).value = _object_acc_w.data
        /\ object_lin_acc_w(Self).value = Components(_object_acc_w.data, 0, 3)
        /\ object_ang_acc_w(Self).value = Components(_object_acc_w.data, 3, 6)

\* both buffers Fresh, object_state_w recomputed for 2 instances of 2 objects
\* from a later state of the view
C7_Witness ==
    /\ num_instances = 2
    /\ num_objects = 2
    /\ hist["state"].reads >= 1
    /\ hist["state"].first_stale
    /\ hist["state"].first_ver >= 1
    /\ Fresh(_object_state_w)
    /\ Fresh(_object_acc_w)
    /\ _object_acc_w.data # NoData
    /\ Len(_object_state_w.data[1][1]) = 13

\* the call of the example: 2 instances, 3 objects, k = 1, buffer [0..5]
C8_Example ==
    /\ num_instances = 2
    /\ num_objects = 3
    /\ reorder_in = <<<<0>>, <<1>>, <<2>>, <<3>>, <<4>>, <<5>>>>

C9_ShapeIsFatal ==
    (view_count # num_instances * num_objects /\ last.op = "read") =>
        last.raised # None

StaleNext(c) ==
    IF c = "state" THEN _object_state_w'.timestamp < sim_timestamp'
    ELSE _object_acc_w'.timestamp < sim_timestamp'

FreshNext(c) ==
    IF c = "state" THEN _object_state_w'.timestamp = sim_timestamp'
    ELSE _object_acc_w'.timestamp = sim_timestamp'

\* C10: an update changes the simulation timestamp and neither buffer, and
\* leaves both buffers Stale; a read changes at most the buffer that backs the
\* property read, and not the simulation timestamp; a buffer turns from Stale
\* to Fresh only in a read of a property it backs, and stays Stale through
\* every other step, reads of the other buffer included.
C10_Frame ==
    [][/\ (dts' # dts =>
            /\ _object_state_w' = _object_state_w
            /\ _object_acc_w' = _object_acc_w
            /\ sim_timestamp' # sim_timestamp
            /\ \A c \in Caches : StaleNext(c))
       /\ (last'.op = "read" =>
            /\ sim_timestamp' = sim_timestamp
            /\ (last'.cache = "state" => _object_acc_w' = _object_acc_w)
            /\ (last'.cache = "acc" => _object_state_w' = _object_state_w))
       /\ (_object_state_w' # _object_state_w => last'.op = "read" /\ last'.cache = "state")
       /\ (_object_acc_w' # _object_acc_w => last'.op = "read" /\ last'.cache = "acc")
       /\ \A c \in Caches :
            /\ (Stale(Cache(c)) /\ FreshNext(c)) => (last'.op = "read" /\ last'.cache = c)
            /\ (Stale(Cache(c)) /\ ~(last'.op = "read" /\ last'.cache = c)) => StaleNext(c)
      ]_vars

\* after an update, object_state_w was read and is Fresh while object_acc_w,
\* filled before the update, is still Stale
C10_Witness ==
    /\ dts # <<>>
    /\ ReadReturned("state")
    /\ Fresh(_object_state_w)
    /\ Stale(_object_acc_w)
    /\ _object_acc_w.data # NoData
    /\ hist["acc"].reads = 0

\* the last update was called with dt <= 0 and found buffer c Fresh
FreshBeforeNonPositive(c) ==
    /\ dts # <<>>
    /\ before.dt <= 0
    /\ before[c].timestamp = before.t

\* C11: update(dt) raises nothing and sets the simulation timestamp to its old
\* value plus dt for every dt, zero and negative included, so that a negative
\* dt makes it decrease; and after an update with dt <= 0 that found a buffer
\* Fresh, no read recomputes that buffer: it is left as the update found it, and
\* the reads of it that return give back the data it held then.
C11_NoValidation ==
    /\ sim_timestamp = SumSeq(dts)
    /\ (last.op = "update" => last.raised = None)
    /\ (dts # <<>> =>
            /\ before.dt = dts[Len(dts)]
            /\ sim_timestamp = before.t + before.dt
            /\ (before.dt < 0 => sim_timestamp < before.t))
    /\ \A c \in Caches :
            FreshBeforeNonPositive(c) =>
                /\ Cache(c) = before[c]
                /\ hist[c].recomp = 0
                /\ hist[c].same
                /\ (hist[c].reads >= 1 => hist[c].first_buf = before[c].data)

\* a buffer filled from the first state of the view, a physics step, an update
\* with a negative dt, and then a read of that buffer that returned
C11_Witness ==
    \E c \in Caches :
        /\ FreshBeforeNonPositive(c)
        /\ before.dt < 0
        /\ sim_timestamp < before.t
        /\ before[c].data # NoData
        /\ view_ver >= 1
        /\ before[c].data = FromView(c, 0).value
        /\ hist[c].reads >= 1
        /\ ReadReturned(c)

\* the call of the view that fails in the recomputation of buffer c, or None
FailingCall(c) ==
    IF c = "state" /\ view_fault \in {"get_transforms", "get_velocities"}
        THEN view_fault
    ELSE IF c = "acc" /\ view_fault = "get_accelerations" THEN view_fault
    ELSE None

CacheNext(c) == IF c = "state" THEN _object_state_w' ELSE _object_acc_w'

\* C12: a read of a property whose buffer is Stale, made while a call of the
\* view that the recomputation needs fails (get_transforms, or get_velocities
\* after get_transforms succeeded, or get_accelerations), raises the exception
\* of that call and leaves the data and the timestamp of the buffer as they
\* were, so the buffer is still Stale; and every read of a Stale buffer, the
\* one after a failed read included, goes to the view again: it fails in the
\* same way while the call fails, and otherwise returns and leaves the buffer
\* holding what the view gives now, stamped with the simulation timestamp.
C12_FailurePropagates ==
    [][\A c \in Caches :
        (last'.op = "read" /\ last'.cache = c /\ Stale(Cache(c))) =>
            IF FailingCall(c) # None
            THEN /\ last'.raised = ViewError(FailingCall(c))
                 /\ CacheNext(c) = Cache(c)
                 /\ StaleNext(c)
                 /\ hist' = hist
            ELSE /\ last'.raised = None
                 /\ CacheNext(c) = [data |-> FromView(c, view_ver).value,
                                    timestamp |-> sim_timestamp]
      ]_vars

\* get_velocities fails: a read of object_state_w's buffer, which holds the
\* data of an earlier time, raised that exception and the buffer is unchanged
C12_Witness ==
    /\ view_fault = "get_velocities"
    /\ last.op = "read"
    /\ last.cache = "state"
    /\ last.raised = ViewError("get_velocities")
    /\ Stale(_object_state_w)
    /\ _object_state_w.data # NoData
    /\ _object_state_w.data = FromView("state", 0).value
    /\ view_ver >= 1

====
